---- MODULE Spec2Model ----
(***************************************************************************)
(* Model of server.js, the OpenAI -> NVIDIA NIM proxy.                     *)
(*                                                                         *)
(* Text is modelled by TLA+ strings, one character per UTF-16 code unit or *)
(* per upstream byte.  Two specifications share the module:                *)
(*   Spec        the streaming response adapter (server.js 152-221)        *)
(*   SpecRequest the request adapter and the non-streaming response        *)
(*               (server.js 73-150, 222-265)                               *)
(***************************************************************************)
EXTENDS Integers, Sequences, FiniteSets, TLC

(***************************************************************************)
(* Characters and strings                                                  *)
(***************************************************************************)

\* s[i] as a one-character string, "" past the end (String.prototype.charAt)
Char(s, i) == IF i >= 1 /\ i <= Len(s) THEN SubSeq(s, i, i) ELSE ""

\* s.slice(n): the text from 0-based offset n on
Slice(s, n) == SubSeq(s, n + 1, Len(s))

\* s.startsWith(p)
StartsWith(s, p) == Len(s) >= Len(p) /\ SubSeq(s, 1, Len(p)) = p

\* whether p occurs in s at 1-based position i
StartsAt(s, i, p) == i >= 1 /\ i + Len(p) - 1 <= Len(s) /\ SubSeq(s, i, i + Len(p) - 1) = p

\* s.includes(p)
Includes(s, p) == \E i \in 1..(Len(s) - Len(p) + 1) : StartsAt(s, i, p)

\* the least element of a set of positions, 0 for the empty set
Least(S) == IF S = {} THEN 0 ELSE CHOOSE j \in S : \A k \in S : j <= k

\* 1-based index of the first character of s at or after position i that is
\* in the set cs, 0 when there is none
FirstOf(s, i, cs) == Least({j \in i..Len(s) : SubSeq(s, j, j) \in cs})

\* s.split('\n'): the fragments between newlines, always at least one
RECURSIVE Split(_)
SplitAt(s, n) ==
  IF n = 0 THEN <<s>>
  ELSE <<SubSeq(s, 1, n - 1)>> \o Split(SubSeq(s, n + 1, Len(s)))

Split(s) == SplitAt(s, FirstOf(s, 1, {"\n"}))

(***************************************************************************)
(* JSON values, JSON.parse and JSON.stringify                              *)
(*                                                                         *)
(* A value is a tagged record.  An object keeps its members in insertion   *)
(* order, as a JavaScript object with string keys does.  The grammar is    *)
(* JSON's without negative numbers, fractions, exponents and \u escapes;   *)
(* the upstream lines of the model use none of them.  Intermediate results *)
(* are passed on as operator arguments.                                    *)
(***************************************************************************)

JNull == [t |-> "null"]
JBool(b) == [t |-> "bool", b |-> b]
\* a number, kept as its decimal text
JNum(d) == [t |-> "num", d |-> d]
JStr(s) == [t |-> "str", s |-> s]
JArr(items) == [t |-> "arr", items |-> items]
JObj(members) == [t |-> "obj", members |-> members]
\* the JavaScript value undefined (never the result of JSON.parse)
Undefined == [t |-> "undefined"]

Digits == {"0", "1", "2", "3", "4", "5", "6", "7", "8", "9"}
Whitespace == {" ", "\t", "\r", "\n"}

ParseFail == [ok |-> FALSE]
ParseOk(v, i) == [ok |-> TRUE, v |-> v, i |-> i]

RECURSIVE SkipWs(_, _)
SkipWs(s, i) == IF Char(s, i) \in Whitespace THEN SkipWs(s, i + 1) ELSE i

RECURSIVE ScanDigits(_, _)
ScanDigits(s, i) == IF Char(s, i) \in Digits THEN ScanDigits(s, i + 1) ELSE i

DigitValue(c) == CHOOSE d \in 0..9 : SubSeq("0123456789", d + 1, d + 1) = c

\* the natural number a digit string denotes
RECURSIVE ToNat(_)
ToNat(s) ==
  IF s = "" THEN 0
  ELSE 10 * ToNat(SubSeq(s, 1, Len(s) - 1)) + DigitValue(SubSeq(s, Len(s), Len(s)))

\* String(n) for a natural number n
RECURSIVE NatToStr(_)
NatToStr(n) ==
  IF n < 10 THEN SubSeq("0123456789", n + 1, n + 1)
  ELSE NatToStr(n \div 10) \o SubSeq("0123456789", (n % 10) + 1, (n % 10) + 1)

\* obj[k] = v: an existing key keeps its place, a new key goes last
SetMember(members, k, v) ==
  IF \E j \in 1..Len(members) : members[j].k = k
  THEN [j \in 1..Len(members) |->
          IF members[j].k = k THEN [k |-> k, v |-> v] ELSE members[j]]
  ELSE Append(members, [k |-> k, v |-> v])

RECURSIVE ScanString(_, _, _)
RECURSIVE ParseValue(_, _)
RECURSIVE ParseItems(_, _, _)
RECURSIVE ParseMembers(_, _, _)

\* after a backslash at position j: the escape character e
ScanEscape(s, j, run, e) ==
  IF e = "n" THEN ScanString(s, j + 2, run \o "\n")
  ELSE IF e = "\"" THEN ScanString(s, j + 2, run \o "\"")
  ELSE IF e = "\\" THEN ScanString(s, j + 2, run \o "\\")
  ELSE ParseFail

\* j is the first quote, backslash or control character from i on
ScanStringAt(s, i, acc, j) ==
  IF j = 0 THEN ParseFail
  ELSE IF Char(s, j) = "\"" THEN ParseOk(JStr(acc \o SubSeq(s, i, j - 1)), j + 1)
  ELSE IF Char(s, j) = "\\"
    THEN ScanEscape(s, j, acc \o SubSeq(s, i, j - 1), Char(s, j + 1))
  ELSE ParseFail

\* the characters of a string literal after its opening quote
ScanString(s, i, acc) ==
  ScanStringAt(s, i, acc, FirstOf(s, i, {"\"", "\\", "\n", "\r", "\t"}))

\* after an array element: "," and the next element, or "]"
ItemsNext(s, acc, j) ==
  IF Char(s, j) = "," THEN ParseItems(s, j + 1, acc)
  ELSE IF Char(s, j) = "]" THEN ParseOk(JArr(acc), j + 1)
  ELSE ParseFail

ItemsAfterValue(s, acc, r) ==
  IF ~r.ok THEN ParseFail ELSE ItemsNext(s, Append(acc, r.v), SkipWs(s, r.i))

\* the elements of an array after "[" or ","
ParseItems(s, i, acc) == ItemsAfterValue(s, acc, ParseValue(s, SkipWs(s, i)))

\* after an object member: "," and the next member, or "}"
MembersNext(s, acc, j) ==
  IF Char(s, j) = "," THEN ParseMembers(s, j + 1, acc)
  ELSE IF Char(s, j) = "}" THEN ParseOk(JObj(acc), j + 1)
  ELSE ParseFail

MemberAfterValue(s, acc, key, r) ==
  IF ~r.ok THEN ParseFail
  ELSE MembersNext(s, SetMember(acc, key, r.v), SkipWs(s, r.i))

MemberValue(s, acc, key, c) ==
  IF Char(s, c) # ":" THEN ParseFail
  ELSE MemberAfterValue(s, acc, key, ParseValue(s, SkipWs(s, c + 1)))

MemberColon(s, acc, k) ==
  IF ~k.ok THEN ParseFail ELSE MemberValue(s, acc, k.v.s, SkipWs(s, k.i))

MemberKey(s, acc, k0) ==
  IF Char(s, k0) # "\"" THEN ParseFail
  ELSE MemberColon(s, acc, ScanString(s, k0 + 1, ""))

\* the members of an object after "{" or ","
ParseMembers(s, i, acc) == MemberKey(s, acc, SkipWs(s, i))

\* after "{", at the first position j that is not whitespace
ParseObject(s, j) ==
  IF Char(s, j) = "}" THEN ParseOk(JObj(<<>>), j + 1) ELSE ParseMembers(s, j, <<>>)

\* after "[", at the first position j that is not whitespace
ParseArray(s, j) ==
  IF Char(s, j) = "]" THEN ParseOk(JArr(<<>>), j + 1) ELSE ParseItems(s, j, <<>>)

\* the digits s[i..e-1]
ParseNumber(s, i, e) == ParseOk(JNum(SubSeq(s, i, e - 1)), e)

ParseValue(s, i) ==
  IF Char(s, i) = "\"" THEN ScanString(s, i + 1, "")
  ELSE IF Char(s, i) = "{" THEN ParseObject(s, SkipWs(s, i + 1))
  ELSE IF Char(s, i) = "[" THEN ParseArray(s, SkipWs(s, i + 1))
  ELSE IF Char(s, i) = "0" THEN ParseOk(JNum("0"), i + 1)
  ELSE IF Char(s, i) \in Digits THEN ParseNumber(s, i, ScanDigits(s, i))
  ELSE IF StartsAt(s, i, "null") THEN ParseOk(JNull, i + 4)
  ELSE IF StartsAt(s, i, "true") THEN ParseOk(JBool(TRUE), i + 4)
  ELSE IF StartsAt(s, i, "false") THEN ParseOk(JBool(FALSE), i + 5)
  ELSE ParseFail

\* the whole text must be one value, whitespace around it allowed
ParseWhole(text, r) ==
  IF r.ok /\ SkipWs(text, r.i) = Len(text) + 1 THEN [ok |-> TRUE, v |-> r.v]
  ELSE ParseFail

\* JSON.parse(text): [ok |-> TRUE, v |-> value], or ParseFail where it throws
JSONparse(text) == ParseWhole(text, ParseValue(text, SkipWs(text, 1)))

\* a string's characters as JSON.stringify quotes them
RECURSIVE Escape(_)
EscapeAt(s, j) ==
  IF j = 0 THEN s
  ELSE SubSeq(s, 1, j - 1)
       \o (IF Char(s, j) = "\n" THEN "\\n"
           ELSE IF Char(s, j) = "\"" THEN "\\\""
           ELSE "\\\\")
       \o Escape(SubSeq(s, j + 1, Len(s)))

Escape(s) == EscapeAt(s, FirstOf(s, 1, {"\n", "\"", "\\"}))

RECURSIVE JSONstringify(_)
RECURSIVE StringifyItems(_, _)
RECURSIVE StringifyMembers(_, _)

StringifyItems(items, j) ==
  IF j > Len(items) THEN ""
  ELSE (IF j > 1 THEN "," ELSE "")
       \o (IF items[j].t = "undefined" THEN "null" ELSE JSONstringify(items[j]))
       \o StringifyItems(items, j + 1)

StringifyMembers(members, j) ==
  IF j > Len(members) THEN ""
  ELSE (IF j > 1 THEN "," ELSE "")
       \o "\"" \o Escape(members[j].k) \o "\":" \o JSONstringify(members[j].v)
       \o StringifyMembers(members, j + 1)

\* JSON.stringify(v), without indentation
JSONstringify(v) ==
  IF v.t = "null" THEN "null"
  ELSE IF v.t = "bool" THEN (IF v.b THEN "true" ELSE "false")
  ELSE IF v.t = "num" THEN v.d
  ELSE IF v.t = "str" THEN "\"" \o Escape(v.s) \o "\""
  ELSE IF v.t = "arr" THEN "[" \o StringifyItems(v.items, 1) \o "]"
  ELSE "{" \o StringifyMembers(v.members, 1) \o "}"

(***************************************************************************)
(* JavaScript value semantics used by the handler                          *)
(***************************************************************************)

\* the truthiness of a value in a condition
Truthy(v) ==
  IF v.t = "str" THEN v.s # ""
  ELSE IF v.t = "num" THEN v.d # "0"
  ELSE IF v.t = "bool" THEN v.b
  ELSE v.t \in {"obj", "arr", "function"}

\* v[k] for a value that is neither null nor undefined
Get(v, k) ==
  IF v.t = "obj" /\ \E j \in 1..Len(v.members) : v.members[j].k = k
  THEN v.members[CHOOSE j \in 1..Len(v.members) : v.members[j].k = k].v
  ELSE Undefined

\* delete obj[k]
DeleteMember(members, k) == SelectSeq(members, LAMBDA m : m.k # k)

\* String(v), as the + operator converts an operand
RECURSIVE ToStr(_)
RECURSIVE JoinItems(_, _)
JoinItems(items, j) ==
  IF j > Len(items) THEN ""
  ELSE (IF j > 1 THEN "," ELSE "")
       \o (IF items[j].t \in {"null", "undefined"} THEN "" ELSE ToStr(items[j]))
       \o JoinItems(items, j + 1)

ToStr(v) ==
  IF v.t = "str" THEN v.s
  ELSE IF v.t = "num" THEN v.d
  ELSE IF v.t = "bool" THEN (IF v.b THEN "true" ELSE "false")
  ELSE IF v.t = "null" THEN "null"
  ELSE IF v.t = "undefined" THEN "undefined"
  ELSE IF v.t = "arr" THEN JoinItems(v.items, 1)
  ELSE "[object Object]"

\* Number(v) for a natural number or a boolean
ToNum(v) == IF v.t = "num" THEN ToNat(v.d) ELSE IF v.b THEN 1 ELSE 0

\* a + b
Plus(a, b) ==
  IF a.t \in {"num", "bool"} /\ b.t \in {"num", "bool"}
  THEN JNum(NatToStr(ToNum(a) + ToNum(b)))
  ELSE JStr(ToStr(a) \o ToStr(b))

\* v?.[0]
First(v) ==
  IF v.t \in {"null", "undefined"} THEN Undefined
  ELSE IF v.t = "arr" THEN (IF Len(v.items) >= 1 THEN v.items[1] ELSE Undefined)
  ELSE IF v.t = "str" THEN (IF v.s # "" THEN JStr(SubSeq(v.s, 1, 1)) ELSE Undefined)
  ELSE Get(v, "0")

\* c0?.delta
DeltaOf(c0) == IF c0.t \in {"null", "undefined"} THEN Undefined ELSE Get(c0, "delta")

\* data.choices?.[0]?.delta, for data that is not null
FirstDelta(data) == DeltaOf(First(Get(data, "choices")))

\* the first choice with its delta's members replaced
WithDeltaMember(c0, newMembers) ==
  JObj(SetMember(c0.members, "delta", JObj(newMembers)))

\* choices with the first choice's delta replaced
WithFirst(choices, newMembers) ==
  IF choices.t = "arr"
  THEN JArr([j \in 1..Len(choices.items) |->
               IF j = 1 THEN WithDeltaMember(choices.items[1], newMembers)
               ELSE choices.items[j]])
  ELSE JObj(SetMember(choices.members, "0",
                      WithDeltaMember(Get(choices, "0"), newMembers)))

\* data after the assignments made through data.choices[0].delta have turned
\* the delta's members into newMembers; only an object delta keeps them
WithDelta(data, newMembers) ==
  IF FirstDelta(data).t = "obj"
  THEN JObj(SetMember(data.members, "choices",
                      WithFirst(Get(data, "choices"), newMembers)))
  ELSE data

(***************************************************************************)
(* Upstream bytes and chunk.toString()                                     *)
(*                                                                         *)
(* An ASCII byte is its character.  One two-byte UTF-8 character is        *)
(* modelled: the byte pair LeadByte ContByte encodes TwoByteChar; a byte   *)
(* of the pair that Buffer.toString() meets alone decodes to U+FFFD,       *)
(* ReplacementChar.  None of the four characters occurs otherwise.         *)
(***************************************************************************)

LeadByte == "^"
ContByte == "~"
TwoByteChar == "@"
ReplacementChar == "?"

RECURSIVE ChunkToString(_)
\* j is the first byte of the chunk that is not ASCII
DecodeAt(chunk, j) ==
  IF j = 0 THEN chunk
  ELSE IF Char(chunk, j) = LeadByte /\ Char(chunk, j + 1) = ContByte
  THEN SubSeq(chunk, 1, j - 1) \o TwoByteChar
       \o ChunkToString(SubSeq(chunk, j + 2, Len(chunk)))
  ELSE SubSeq(chunk, 1, j - 1) \o ReplacementChar
       \o ChunkToString(SubSeq(chunk, j + 1, Len(chunk)))

\* chunk.toString(): UTF-8 decoding of one chunk on its own
ChunkToString(chunk) == DecodeAt(chunk, FirstOf(chunk, 1, {LeadByte, ContByte}))

(***************************************************************************)
(* The per-line transformation of the streaming path                       *)
(***************************************************************************)

OpenMarker == "<think>\n"
CloseMarker == "</think>\n\n"

\* the reasoning step with the opening marker on every reasoning fragment
ReasoningPartAlwaysOpens(reasoning, started) ==
  IF Truthy(reasoning)
  THEN [c |-> JStr(OpenMarker \o ToStr(reasoning)), s |-> TRUE]
  ELSE [c |-> JStr(""), s |-> started]

\* if (reasoning && !reasoningStarted) ... else if (reasoning) ...:
\* combinedContent and reasoningStarted after it
ReasoningPart(reasoning, started) ==
  IF Truthy(reasoning) /\ ~started
  THEN [c |-> JStr(OpenMarker \o ToStr(reasoning)), s |-> TRUE]
  ELSE IF Truthy(reasoning) THEN [c |-> reasoning, s |-> started]
  ELSE [c |-> JStr(""), s |-> started]

\* the content step closing the reasoning without resetting the flag
ContentPartStaysOpen(p, content) ==
  IF Truthy(content) /\ p.s
  THEN [c |-> Plus(p.c, JStr(CloseMarker \o ToStr(content))), s |-> p.s]
  ELSE IF Truthy(content) THEN [c |-> Plus(p.c, content), s |-> p.s]
  ELSE p

\* if (content && reasoningStarted) ... else if (content) ...
ContentPart(p, content) ==
  IF Truthy(content) /\ p.s
  THEN [c |-> Plus(p.c, JStr(CloseMarker \o ToStr(content))), s |-> FALSE]
  ELSE IF Truthy(content) THEN [c |-> Plus(p.c, content), s |-> p.s]
  ELSE p

\* if (combinedContent) { delta.content = combinedContent; delete delta.reasoning_content }
AssignCombined(members, q) ==
  [members |-> IF Truthy(q.c)
               THEN DeleteMember(SetMember(members, "content", q.c), "reasoning_content")
               ELSE members,
   started |-> q.s]

\* the SHOW_REASONING branch: the delta's members and reasoningStarted after it
ShowReasoningBranch(members, reasoning, content, started) ==
  AssignCombined(members, ContentPart(ReasoningPart(reasoning, started), content))

\* the else branch: reasoning display disabled
HideReasoningBranch(members, reasoning, content, started) ==
  [members |-> DeleteMember(
                 SetMember(members, "content",
                           IF Truthy(content) THEN content ELSE JStr("")),
                 "reasoning_content"),
   started |-> started]

\* the own properties of the delta; a primitive has none
DeltaMembers(delta) == IF delta.t = "obj" THEN delta.members ELSE <<>>

Reassemble(data, r) == [data |-> WithDelta(data, r.members), started |-> r.started]

\* if (data.choices?.[0]?.delta) { ... }
TransformDelta(data, delta, started, show) ==
  IF ~Truthy(delta) THEN [data |-> data, started |-> started]
  ELSE Reassemble(data,
         IF show
         THEN ShowReasoningBranch(DeltaMembers(delta), Get(delta, "reasoning_content"),
                                  Get(delta, "content"), started)
         ELSE HideReasoningBranch(DeltaMembers(delta), Get(delta, "reasoning_content"),
                                  Get(delta, "content"), started))

\* the body of the try block once JSON.parse has returned data (not null)
TransformEvent(data, started, show) ==
  TransformDelta(data, FirstDelta(data), started, show)

DataPrefix == "data: "
Sentinel == "[DONE]"

\* whether the line takes the early return of the sentinel test
IsSentinelLine(line) == Includes(line, Sentinel)

\* What one iteration of lines.forEach does: the text it writes and the
\* reasoningStarted it leaves.  kind names the path taken:
\*   "discarded" no data prefix, nothing written
\*   "sentinel"  the early return, the line written back
\*   "event"     parsed, transformed, re-serialized
\*   "caught"    the catch block, the line written back
\* parsed tells whether JSON.parse returned, data what it returned and out
\* the event object as serialized.
Verbatim(kind, line, started, parsed, data) ==
  [kind |-> kind, written |-> line \o "\n", started |-> started,
   parsed |-> parsed, data |-> data, out |-> Undefined]

\* res.write(`data: ${JSON.stringify(data)}\n\n`)
Emit(data, r) ==
  [kind |-> "event", written |-> DataPrefix \o JSONstringify(r.data) \o "\n\n",
   started |-> r.started, parsed |-> TRUE, data |-> data, out |-> r.data]

\* the try block: p is the outcome of JSON.parse(line.slice(6)); reading
\* null.choices throws a TypeError, caught like a parse error
TryBlock(line, started, show, p) ==
  IF ~p.ok THEN Verbatim("caught", line, started, FALSE, Undefined)
  ELSE IF p.v.t = "null" THEN Verbatim("caught", line, started, TRUE, p.v)
  ELSE Emit(p.v, TransformEvent(p.v, started, show))

ProcessLine(line, started, show) ==
  IF ~StartsWith(line, DataPrefix)
  THEN [kind |-> "discarded", written |-> "", started |-> started,
        parsed |-> FALSE, data |-> Undefined, out |-> Undefined]
  ELSE IF IsSentinelLine(line)
  THEN Verbatim("sentinel", line, started, FALSE, Undefined)
  ELSE TryBlock(line, started, show, JSONparse(Slice(line, 6)))

RECURSIVE ForEachLine(_, _, _, _)
ForEachStep(lines, from, started, show, r) ==
  <<[line |-> lines[from], pre |-> started, post |-> r.started,
     kind |-> r.kind, written |-> r.written, parsed |-> r.parsed,
     data |-> r.data, out |-> r.out]>>
  \o ForEachLine(lines, from + 1, r.started, show)

\* lines.forEach over lines[from..]: one record per line, in order
ForEachLine(lines, from, started, show) ==
  IF from > Len(lines) THEN <<>>
  ELSE ForEachStep(lines, from, started, show, ProcessLine(lines[from], started, show))

\* the texts written for the records recs[j..], concatenated
RECURSIVE Concat(_, _)
Concat(recs, j) == IF j > Len(recs) THEN "" ELSE recs[j].written \o Concat(recs, j + 1)

\* the buffer emptied after every chunk, its unfinished line lost
PopBufferCleared(lines) == ""

\* buffer = lines.pop() || ''
PopBuffer(lines) == lines[Len(lines)]

\* the lines left for forEach after lines.pop()
CompleteLines(lines) == SubSeq(lines, 1, Len(lines) - 1)

HandlerResult(st, text, lines, recs) ==
  [buffer |-> PopBuffer(lines),
   started |-> IF recs = <<>> THEN st.started ELSE recs[Len(recs)].post,
   written |-> Concat(recs, 1),
   text |-> text,
   recs |-> recs]

HandleLines(st, text, lines, show) ==
  HandlerResult(st, text, lines, ForEachLine(CompleteLines(lines), 1, st.started, show))

\* buffer += chunk.toString(); const lines = buffer.split('\n')
HandleText(st, text, show) == HandleLines(st, text, Split(st.buffer \o text), show)

\* the 'data' handler on one chunk, from a handler state [buffer, started]:
\* the new state, the text written, the chunk's text, the lines processed
HandleData(st, chunk, show) == HandleText(st, ChunkToString(chunk), show)

(***************************************************************************)
(* Upstream streams the model delivers                                     *)
(***************************************************************************)

\* the longest upstream stream, in lines
MaxLines == 2

\* the longest chunk that is not the whole rest of the stream, in bytes
MaxChunk == 2

EventPrefix == "data: {\"choices\":[{\"delta\":{"
EventSuffix == "}}]}"

\* a content fragment, a reasoning fragment, both, and an empty reasoning
\* fragment
LineContent == EventPrefix \o "\"content\":\"C\"" \o EventSuffix
LineReasoning == EventPrefix \o "\"reasoning_content\":\"R\"" \o EventSuffix
LineBoth == EventPrefix \o "\"reasoning_content\":\"R\",\"content\":\"C\"" \o EventSuffix
LineEmpty == EventPrefix \o "\"reasoning_content\":\"\"" \o EventSuffix
\* the end-of-stream sentinel, and an event whose text contains it
LineDone == "data: [DONE]"
LineDoneText == EventPrefix \o "\"reasoning_content\":\"[DONE]\"" \o EventSuffix
\* a payload that is not JSON, holding the two-byte character
LineMalformed == "data: {\"" \o LeadByte \o ContByte
\* an event without a first choice
LineNoDelta == "data: {\"choices\":[]}"
\* the blank line that ends a server-sent event
LineBlank == ""

UpstreamLines ==
  {LineContent, LineReasoning, LineBoth, LineEmpty, LineDone, LineDoneText,
   LineMalformed, LineNoDelta, LineBlank}

\* the byte sequences of at most n newline-terminated lines
RECURSIVE StreamsOf(_)
StreamsOf(n) ==
  IF n = 0 THEN {""}
  ELSE {""} \cup {l \o "\n" \o s : l \in UpstreamLines, s \in StreamsOf(n - 1)}

\* byte sequences whose last line the upstream never terminates
UnterminatedStreams ==
  {LineContent,
   LineReasoning \o "\n" \o LineReasoning,
   LineReasoning \o "\n" \o LineContent}

(***************************************************************************)
(* POST /v1/chat/completions: the request adapter                          *)
(***************************************************************************)

FORCE_DETAILED_RESPONSES == TRUE

ENABLE_THINKING_MODE == FALSE

MODEL_MAPPING ==
  ("gpt-3.5-turbo" :> "nvidia/llama-3.1-nemotron-ultra-253b-v1")
  @@ ("gpt-4" :> "qwen/qwen3-coder-480b-a35b-instruct")
  @@ ("gpt-4-turbo" :> "moonshotai/kimi-k2-instruct-0905")
  @@ ("gpt-4o" :> "deepseek-ai/deepseek-v3.1")
  @@ ("claude-3-opus" :> "openai/gpt-oss-120b")
  @@ ("claude-3-sonnet" :> "openai/gpt-oss-20b")
  @@ ("gemini-pro" :> "qwen/qwen3-next-80b-a3b-thinking")

DETAILED_SYSTEM_PROMPT ==
  "You are a helpful, knowledgeable assistant who provides comprehensive and detailed responses. When answering questions:\n"
  \o "- Give thorough explanations with context and examples\n"
  \o "- Break down complex topics into detailed sections\n"
  \o "- Provide multiple perspectives when relevant\n"
  \o "- Use elaboration rather than brevity\n"
  \o "- Aim for complete, well-rounded answers that fully address the question\n"
  \o "- Don't rush to conclude - explore the topic in depth"

\* the text appended to an existing system prompt
EnhancementSuffix ==
  "\n\nIMPORTANT: Provide detailed, comprehensive responses. Elaborate fully on your answers."

\* a function object
JFunction == [t |-> "function"]

\* the methods every object literal inherits from Object.prototype
InheritedMethods ==
  {"constructor", "toString", "toLocaleString", "valueOf", "hasOwnProperty",
   "isPrototypeOf", "propertyIsEnumerable"}

\* a lookup that finds no alias
LookupNothing(model) == Undefined

\* MODEL_MAPPING[model]: a property read on an object literal, which finds
\* own properties first and inherited ones after
Lookup(model) ==
  IF model \in DOMAIN MODEL_MAPPING THEN JStr(MODEL_MAPPING[model])
  ELSE IF model \in InheritedMethods THEN JFunction
  ELSE IF model = "__proto__" THEN JObj(<<>>)
  ELSE Undefined

UpperCase == "ABCDEFGHIJKLMNOPQRSTUVWXYZ"
LowerCase == "abcdefghijklmnopqrstuvwxyz"
UpperLetters == {SubSeq(UpperCase, i, i) : i \in 1..Len(UpperCase)}

\* the lower-case letter of an upper-case letter c
LowerOf(c) == Char(LowerCase, FirstOf(UpperCase, 1, {c}))

\* model.toLowerCase()
RECURSIVE ToLowerFrom(_, _)
LowerAt(s, i, n) ==
  IF n = 0 THEN SubSeq(s, i, Len(s))
  ELSE SubSeq(s, i, n - 1) \o LowerOf(Char(s, n)) \o ToLowerFrom(s, n + 1)

ToLowerFrom(s, i) == LowerAt(s, i, FirstOf(s, i, UpperLetters))

ToLowerCase(s) == ToLowerFrom(s, 1)

\* the else-branch of the older copy of the handler, where the default for
\* an unrecognised identifier is the 8b model
HeuristicSmallDefault(modelLower) ==
  IF \/ Includes(modelLower, "gpt-4")
     \/ Includes(modelLower, "claude-opus")
     \/ Includes(modelLower, "405b")
  THEN "meta/llama-3.1-405b-instruct"
  ELSE IF \/ Includes(modelLower, "claude")
          \/ Includes(modelLower, "gemini")
          \/ Includes(modelLower, "70b")
  THEN "meta/llama-3.1-70b-instruct"
  ELSE "meta/llama-3.1-8b-instruct"

\* the substring heuristic on the lower-cased identifier
Heuristic(modelLower) ==
  IF \/ Includes(modelLower, "gpt-4")
     \/ Includes(modelLower, "claude-opus")
     \/ Includes(modelLower, "405b")
  THEN "meta/llama-3.1-405b-instruct"
  ELSE IF \/ Includes(modelLower, "claude")
          \/ Includes(modelLower, "gemini")
          \/ Includes(modelLower, "70b")
  THEN "meta/llama-3.1-70b-instruct"
  ELSE "meta/llama-3.1-70b-instruct"

\* how an HTTP call to the upstream settles: with a response of some status,
\* or without one (network failure)
Responded(status) == [kind |-> "response", status |-> status]
NetworkError == [kind |-> "network", status |-> 0]
NoProbe == [kind |-> "none", status |-> 0]

\* the probe's validateStatus: (status) => status < 500
ProbeResolves(o) == o.kind = "response" /\ o.status < 500

\* axios' default validateStatus, used by the completion call
CompletionResolves(o) == o.kind = "response" /\ o.status >= 200 /\ o.status < 300

\* the probe's .then: nimModel = model on a 2xx status; a rejected probe is
\* swallowed by catch (e) {}
AfterProbe(m, model, o) ==
  IF ProbeResolves(o) /\ o.status >= 200 /\ o.status < 300 THEN model ELSE m

\* if (!nimModel) { ... the heuristic ... }
AfterHeuristic(m, model) ==
  IF ~Truthy(m) THEN JStr(Heuristic(ToLowerCase(model.s))) ELSE m

\* the body of the probe call
ProbeRequest(model) ==
  [model |-> model,
   messages |-> <<[role |-> "user", content |-> "test"]>>,
   max_tokens |-> JNum("1")]

\* messages.some(m => m.role === 'system')
HasSystemPrompt(messages) == \E j \in 1..Len(messages) : messages[j].role = "system"

\* the mapping with the instruction in place of the system prompt
EnhanceReplaces(messages) ==
  [j \in 1..Len(messages) |->
     IF messages[j].role = "system"
     THEN [messages[j] EXCEPT !.content = EnhancementSuffix]
     ELSE messages[j]]

\* messages.map(m => m.role === 'system' ? {...m, content: m.content + suffix} : m)
Enhance(messages) ==
  [j \in 1..Len(messages) |->
     IF messages[j].role = "system"
     THEN [messages[j] EXCEPT !.content = @ \o EnhancementSuffix]
     ELSE messages[j]]

\* processedMessages next to the inbound array: own tells whether
\* processedMessages is an array of its own or the inbound array itself
\* an assignment that makes processedMessages the inbound array itself
SpreadAliased(messages) == [processed |-> messages, inbound |-> messages, own |-> FALSE]

\* let processedMessages = [...messages]: a new array of the same elements
Spread(messages) == [processed |-> messages, inbound |-> messages, own |-> TRUE]

\* the new message put at the end of the array
UnshiftAppends(h, m) ==
  [processed |-> h.processed \o <<m>>,
   inbound |-> IF h.own THEN h.inbound ELSE h.inbound \o <<m>>,
   own |-> h.own]

\* processedMessages.unshift(m): in place, so it shows in the inbound array
\* when the two are one array
Unshift(h, m) ==
  [processed |-> <<m>> \o h.processed,
   inbound |-> IF h.own THEN h.inbound ELSE <<m>> \o h.inbound,
   own |-> h.own]

\* processedMessages = messages.map(...): a new array; {...m} makes a new
\* object for each system message and the others are passed on untouched
Remap(h) == [processed |-> Enhance(h.inbound), inbound |-> h.inbound, own |-> TRUE]

\* lines 108-128 on the copy h
Augmented(h) ==
  IF ~FORCE_DETAILED_RESPONSES THEN h
  ELSE IF ~HasSystemPrompt(h.inbound)
  THEN Unshift(h, [role |-> "system", content |-> DETAILED_SYSTEM_PROMPT])
  ELSE Remap(h)

Augment(messages) == Augmented(Spread(messages))

\* processedMessages
ProcessMessages(messages) == Augment(messages).processed

\* the caller's messages array once the handler has built processedMessages
InboundAfter(messages) == Augment(messages).inbound

\* v !== undefined ? v : d
IfDefined(v, d) == IF v # Undefined THEN v ELSE d

\* v || d
OrElse(v, d) == IF Truthy(v) THEN v ELSE d

\* const nimRequest = { ... }
BuildRequest(b, m) ==
  [model |-> m,
   messages |-> ProcessMessages(b.messages),
   temperature |-> IfDefined(b.temperature, JNum("0.85")),
   max_tokens |-> OrElse(b.max_tokens, JNum("4096")),
   top_p |-> IfDefined(b.top_p, JNum("0.95")),
   presence_penalty |-> IfDefined(b.presence_penalty, JNum("0.6")),
   frequency_penalty |-> IfDefined(b.frequency_penalty, JNum("0.3")),
   extra_body |-> IF ENABLE_THINKING_MODE
                  THEN JObj(<<[k |-> "chat_template_kwargs",
                               v |-> JObj(<<[k |-> "thinking", v |-> JBool(TRUE)]>>)]>>)
                  ELSE Undefined,
   stream |-> OrElse(b.stream, JBool(FALSE))]

\* the catch block's response: status and code are error.response?.status || 500
ErrorResponse(message, status) ==
  [status |-> IF status # 0 THEN status ELSE 500,
   body |-> [error |-> [message |-> message,
                        type |-> "invalid_request_error",
                        code |-> IF status # 0 THEN status ELSE 500]]]

\* let fullContent = choice.message?.content || ''
\* if (SHOW_REASONING && choice.message?.reasoning_content) fullContent = ...
FullContent(message, show) ==
  IF show /\ Truthy(Get(message, "reasoning_content"))
  THEN Plus(Plus(Plus(JStr("<think>\n"), Get(message, "reasoning_content")),
                 JStr("\n</think>\n\n")),
            OrElse(Get(message, "content"), JStr("")))
  ELSE OrElse(Get(message, "content"), JStr(""))

\* one element of response.data.choices.map(choice => ...)
MapChoice(choice, show) ==
  [index |-> Get(choice, "index"),
   message |-> [role |-> Get(Get(choice, "message"), "role"),
                content |-> FullContent(Get(choice, "message"), show)],
   finish_reason |-> Get(choice, "finish_reason")]

ZeroUsage ==
  JObj(<<[k |-> "prompt_tokens", v |-> JNum("0")],
         [k |-> "completion_tokens", v |-> JNum("0")],
         [k |-> "total_tokens", v |-> JNum("0")]>>)

\* reading .map of a missing choices, or .role of a missing message, throws
MappingThrows(data) ==
  \/ Get(data, "choices").t # "arr"
  \/ \E j \in 1..Len(Get(data, "choices").items) :
       Get(Get(data, "choices").items[j], "message").t \in {"undefined", "null"}

\* a response that names the alias table's model
OpenAIResponseResolved(b, data, show) ==
  [object |-> "chat.completion",
   model |-> OrElse(Lookup(b.model.s), b.model),
   choices |-> [j \in 1..Len(Get(data, "choices").items) |->
                  MapChoice(Get(data, "choices").items[j], show)],
   usage |-> OrElse(Get(data, "usage"), ZeroUsage)]

\* const openaiResponse = { ... }; the clock-derived id and created are left out
OpenAIResponse(b, data, show) ==
  [object |-> "chat.completion",
   model |-> b.model,
   choices |-> [j \in 1..Len(Get(data, "choices").items) |->
                  MapChoice(Get(data, "choices").items[j], show)],
   usage |-> OrElse(Get(data, "usage"), ZeroUsage)]

\* the non-streaming branch: res.json(openaiResponse), or the catch block
\* when building it throws
NonStreamResponse(b, data, show) ==
  IF MappingThrows(data)
  THEN ErrorResponse("Cannot read properties of undefined", 0)
  ELSE [status |-> 200, body |-> OpenAIResponse(b, data, show)]

\* the streaming branch has set the event-stream headers; the body follows
\* from the stream handlers
StreamHeaders ==
  [status |-> 200,
   body |-> [headers |-> <<"Content-Type: text/event-stream",
                           "Cache-Control: no-cache",
                           "Connection: keep-alive">>]]

(***************************************************************************)
(* Requests and upstream replies                                           *)
(***************************************************************************)

ModelIds ==
  {"gpt-4o", "claude-3-opus",
   "gpt-4-32k", "GPT-4-32K", "claude-opus-4", "Llama-405B",
   "claude-2", "Gemini-Ultra", "llama-70b",
   "mistral-7b", "constructor", ""}

ParamValues == {Undefined, JNum("0"), JNum("2")}

StreamFlags == {Undefined, JBool(TRUE)}

UserMessage == [role |-> "user", content |-> "U"]
AssistantMessage == [role |-> "assistant", content |-> "A"]
SystemMessage == [role |-> "system", content |-> "S"]

MessageLists ==
  {<<UserMessage, AssistantMessage>>,
   <<SystemMessage, UserMessage>>,
   <<UserMessage, SystemMessage>>,
   <<SystemMessage, UserMessage, SystemMessage>>}

\* const { model, messages, temperature, max_tokens, stream, top_p,
\*         presence_penalty, frequency_penalty } = req.body
Request(model, messages, stream, t, mt, tp, pp, fp) ==
  [model |-> JStr(model), messages |-> messages, stream |-> stream,
   temperature |-> t, max_tokens |-> mt, top_p |-> tp,
   presence_penalty |-> pp, frequency_penalty |-> fp]

\* requests that vary the model, the messages and the stream flag and leave
\* the generation parameters out
ModelRequests ==
  {Request(id, ms, st, Undefined, Undefined, Undefined, Undefined, Undefined) :
     id \in ModelIds, ms \in MessageLists, st \in StreamFlags}

\* requests that vary the generation parameters and the stream flag
ParamRequests ==
  {Request("gpt-4o", <<UserMessage, AssistantMessage>>, st, t, mt, tp, pp, fp) :
     st \in StreamFlags, t \in ParamValues, mt \in ParamValues,
     tp \in ParamValues, pp \in ParamValues, fp \in ParamValues}

Requests == ModelRequests \cup ParamRequests

\* the statuses and failures the upstream answers with
ProbeOutcomes == {Responded(200), Responded(404), Responded(503), NetworkError}
CompletionFailures == {Responded(401), Responded(500), NetworkError}

\* the members that are present
Present(members) == SelectSeq(members, LAMBDA m : m.v # Undefined)

\* a completion body with one choice
CompletionBody(content, reasoning, usage) ==
  JObj(Present(<<
    [k |-> "choices",
     v |-> JArr(<<JObj(<<
             [k |-> "index", v |-> JNum("0")],
             [k |-> "message",
              v |-> JObj(Present(<<[k |-> "role", v |-> JStr("assistant")],
                                   [k |-> "content", v |-> content],
                                   [k |-> "reasoning_content", v |-> reasoning]>>))],
             [k |-> "finish_reason", v |-> JStr("stop")]>>)>>)],
    [k |-> "usage", v |-> usage]>>))

SomeUsage ==
  JObj(<<[k |-> "prompt_tokens", v |-> JNum("3")],
         [k |-> "completion_tokens", v |-> JNum("4")],
         [k |-> "total_tokens", v |-> JNum("7")]>>)

CompletionBodies ==
  {CompletionBody(c, r, u) :
     c \in {Undefined, JStr("C")}, r \in {Undefined, JStr("R")},
     u \in {Undefined, SomeUsage}}
  \cup {JObj(<<>>)}

(***************************************************************************)
(* State                                                                   *)
(***************************************************************************)

VARIABLES
  SHOW_REASONING,    \* the configuration flag
  upstream,          \* the bytes the upstream sends on response.data
  delivered,         \* how many of them 'data' events have delivered
  streamState,       \* response.data: "flowing", "ended" or "errored"
  buffer,            \* let buffer
  reasoningStarted,  \* let reasoningStarted
  outbound,          \* everything res.write has written
  resEnded,          \* whether res.end() has been called
  received,          \* history: the chunk texts appended to buffer so far
  log,               \* history: one record per line handed to forEach
  pc,                \* where the POST /v1/chat/completions handler stands
  body,              \* req.body
  nimModel,          \* let nimModel
  probe,             \* how the capability probe settled, if one was made
  nimRequest,        \* const nimRequest
  calls,             \* the requests posted to the upstream, in order
  clientResponse,    \* what res.json / res.setHeader have sent to the client
  arrived,           \* history: req.body as it arrived
  streams            \* concurrent streaming requests: each one's upstream,
                     \* closure variables and outbound stream

streamVars == <<SHOW_REASONING, upstream, delivered, streamState, buffer,
                reasoningStarted, outbound, resEnded, received, log>>

requestVars == <<pc, body, nimModel, probe, nimRequest, calls, clientResponse,
                 arrived>>

vars == <<streamVars, requestVars, streams>>

\* a streaming response begins: headers set, buffer = '', reasoningStarted = false
StreamInit ==
  /\ SHOW_REASONING \in BOOLEAN
  /\ upstream \in StreamsOf(MaxLines) \cup UnterminatedStreams
  /\ delivered = 0
  /\ streamState = "flowing"
  /\ buffer = ""
  /\ reasoningStarted = FALSE
  /\ outbound = ""
  /\ resEnded = FALSE
  /\ received = ""
  /\ log = <<>>

\* the sizes of the next chunk: a few bytes, or all that is left
ChunkSizes == {n \in 1..(Len(upstream) - delivered) :
                 n <= MaxChunk \/ n = Len(upstream) - delivered}

\* the handler's effect r on the request's variables
Deliver(r) ==
  /\ buffer' = r.buffer
  /\ reasoningStarted' = r.started
  /\ outbound' = outbound \o r.written
  /\ received' = received \o r.text
  /\ log' = log \o r.recs

\* response.data.on('data'): a chunk of n bytes arrives
OnData(n) ==
  /\ streamState = "flowing"
  /\ n \in ChunkSizes
  /\ Deliver(HandleData([buffer |-> buffer, started |-> reasoningStarted],
                        SubSeq(upstream, delivered + 1, delivered + n),
                        SHOW_REASONING))
  /\ delivered' = delivered + n
  /\ UNCHANGED <<SHOW_REASONING, upstream, streamState, resEnded>>
  /\ UNCHANGED <<requestVars, streams>>

\* an end handler that first processes what is left in the buffer
OnEndFlushes ==
  /\ streamState = "flowing"
  /\ delivered = Len(upstream)
  /\ streamState' = "ended"
  /\ resEnded' = TRUE
  /\ outbound' = outbound \o ProcessLine(buffer, reasoningStarted, SHOW_REASONING).written
  /\ buffer' = ""
  /\ UNCHANGED <<SHOW_REASONING, upstream, delivered, reasoningStarted, received, log>>
  /\ UNCHANGED <<requestVars, streams>>

\* response.data.on('end'): the upstream has sent everything
OnEnd ==
  /\ streamState = "flowing"
  /\ delivered = Len(upstream)
  /\ streamState' = "ended"
  /\ resEnded' = TRUE
  /\ UNCHANGED <<SHOW_REASONING, upstream, delivered, buffer, reasoningStarted,
                 outbound, received, log>>
  /\ UNCHANGED <<requestVars, streams>>

\* an error handler that tells the client with an event of its own
OnErrorWritesEvent ==
  /\ streamState = "flowing"
  /\ streamState' = "errored"
  /\ resEnded' = TRUE
  /\ outbound' = outbound \o "data: {\"error\":{\"message\":\"Stream error\"}}\n\n"
  /\ UNCHANGED <<SHOW_REASONING, upstream, delivered, buffer, reasoningStarted,
                 received, log>>
  /\ UNCHANGED <<requestVars, streams>>

\* response.data.on('error'): the upstream connection fails
OnError ==
  /\ streamState = "flowing"
  /\ streamState' = "errored"
  /\ resEnded' = TRUE
  /\ UNCHANGED <<SHOW_REASONING, upstream, delivered, buffer, reasoningStarted,
                 outbound, received, log>>
  /\ UNCHANGED <<requestVars, streams>>

\* no request is modelled: the streaming response is already under way
RequestIdle ==
  /\ pc = "streaming"
  /\ body = Undefined
  /\ nimModel = Undefined
  /\ probe = NoProbe
  /\ nimRequest = Undefined
  /\ calls = <<>>
  /\ clientResponse = StreamHeaders
  /\ arrived = Undefined

\* no stream is modelled
StreamIdle ==
  /\ SHOW_REASONING \in BOOLEAN
  /\ upstream = ""
  /\ delivered = 0
  /\ streamState = "none"
  /\ buffer = ""
  /\ reasoningStarted = FALSE
  /\ outbound = ""
  /\ resEnded = FALSE
  /\ received = ""
  /\ log = <<>>

\* a request has arrived at the handler
RequestInit ==
  /\ pc = "received"
  /\ body \in Requests
  /\ nimModel = Undefined
  /\ probe = NoProbe
  /\ nimRequest = Undefined
  /\ calls = <<>>
  /\ clientResponse = Undefined
  /\ arrived = body

\* nimModel is settled as m: the handler builds nimRequest and posts it
Forward(m) ==
  /\ nimModel' = m
  /\ body' = [body EXCEPT !.messages = InboundAfter(body.messages)]
  /\ nimRequest' = BuildRequest(body, m)
  /\ calls' = Append(calls, [kind |-> "completion", request |-> BuildRequest(body, m)])
  /\ pc' = "calling"

\* the handler starts and MODEL_MAPPING[model] is truthy: it runs on to the
\* completion call
LookupHit ==
  /\ pc = "received"
  /\ Truthy(Lookup(body.model.s))
  /\ Forward(Lookup(body.model.s))
  /\ UNCHANGED <<probe, clientResponse, arrived>>
  /\ UNCHANGED <<streamVars, streams>>

\* the handler starts and MODEL_MAPPING[model] is falsy: it posts the probe
LookupMiss ==
  /\ pc = "received"
  /\ ~Truthy(Lookup(body.model.s))
  /\ nimModel' = Lookup(body.model.s)
  /\ calls' = Append(calls, [kind |-> "probe", request |-> ProbeRequest(body.model)])
  /\ pc' = "probing"
  /\ UNCHANGED <<body, probe, nimRequest, clientResponse, arrived>>
  /\ UNCHANGED <<streamVars, streams>>

\* the probe settles as o: the handler resolves the model and runs on to the
\* completion call
ProbeSettles(o) ==
  /\ pc = "probing"
  /\ probe' = o
  /\ Forward(AfterHeuristic(AfterProbe(nimModel, body.model, o), body.model))
  /\ UNCHANGED <<clientResponse, arrived>>
  /\ UNCHANGED <<streamVars, streams>>

\* the completion call resolves for a request without stream: res.json
CompletionReplies(data) ==
  /\ pc = "calling"
  /\ ~Truthy(body.stream)
  /\ clientResponse' = NonStreamResponse(body, data, SHOW_REASONING)
  /\ pc' = "responded"
  /\ UNCHANGED <<body, nimModel, probe, nimRequest, calls, arrived>>
  /\ UNCHANGED <<streamVars, streams>>

\* the completion call resolves for a request with stream: the headers are
\* set and the stream handlers registered
CompletionStreams ==
  /\ pc = "calling"
  /\ Truthy(body.stream)
  /\ clientResponse' = StreamHeaders
  /\ pc' = "streaming"
  /\ UNCHANGED <<body, nimModel, probe, nimRequest, calls, arrived>>
  /\ UNCHANGED <<streamVars, streams>>

\* the completion call rejects: the catch block answers with the error
CompletionFails(o) ==
  /\ pc = "calling"
  /\ ~CompletionResolves(o)
  /\ clientResponse' = ErrorResponse("Request failed", o.status)
  /\ pc' = "responded"
  /\ UNCHANGED <<body, nimModel, probe, nimRequest, calls, arrived>>
  /\ UNCHANGED <<streamVars, streams>>

Init == StreamInit /\ RequestIdle /\ streams = <<>>

Next ==
  \/ \E n \in ChunkSizes : OnData(n)
  \/ OnEnd
  \/ OnError

Spec == Init /\ [][Next]_vars

InitRequest == RequestInit /\ StreamIdle /\ streams = <<>>

NextRequest ==
  \/ LookupHit
  \/ LookupMiss
  \/ \E o \in ProbeOutcomes : ProbeSettles(o)
  \/ \E data \in CompletionBodies : CompletionReplies(data)
  \/ CompletionStreams
  \/ \E o \in CompletionFailures : CompletionFails(o)

SpecRequest == InitRequest /\ [][NextRequest]_vars

(***************************************************************************)
(* Concurrent streaming requests                                           *)
(***************************************************************************)

PieceSize == 30

\* two requests are streaming at the same time
RequestIds == {1, 2}

\* what the upstream sends to one of them
ConcurrentUpstreams ==
  {LineReasoning \o "\n" \o LineContent \o "\n",
   LineContent \o "\n",
   LineReasoning \o "\n" \o LineReasoning \o "\n"}

\* a streaming response at its start, with the upstream's bytes u to come
StreamStart(u) ==
  [upstream |-> u, delivered |-> 0, state |-> "flowing",
   buffer |-> "", started |-> FALSE, outbound |-> "", ended |-> FALSE]

ConcurrentInit ==
  /\ streams \in [RequestIds -> {StreamStart(u) : u \in ConcurrentUpstreams}]
  /\ StreamIdle
  /\ RequestIdle

\* the sizes of request r's next chunk: a piece, or all that is left
PieceSizes(r) ==
  {n \in 1..(Len(streams[r].upstream) - streams[r].delivered) :
     n = PieceSize \/ n = Len(streams[r].upstream) - streams[r].delivered}

\* every request's handler reading the closure variables of request 1
ClosureOfFirst(r) == [buffer |-> streams[1].buffer, started |-> streams[1].started]

\* the buffer and reasoningStarted that request r's handlers close over
ClosureOf(r) == [buffer |-> streams[r].buffer, started |-> streams[r].started]

\* request r's stream after its data handler returned h for n more bytes
Delivered(st, n, h) ==
  [st EXCEPT !.delivered = @ + n,
             !.buffer = h.buffer,
             !.started = h.started,
             !.outbound = @ \o h.written]

\* response.data.on('data') of request r: a chunk of n bytes arrives
OnDataOf(r, n) ==
  /\ streams[r].state = "flowing"
  /\ n \in PieceSizes(r)
  /\ streams' = [streams EXCEPT ![r] =
                   Delivered(@, n,
                             HandleData(ClosureOf(r),
                                        SubSeq(@.upstream, @.delivered + 1, @.delivered + n),
                                        SHOW_REASONING))]
  /\ UNCHANGED <<streamVars, requestVars>>

\* response.data.on('end') of request r
OnEndOf(r) ==
  /\ streams[r].state = "flowing"
  /\ streams[r].delivered = Len(streams[r].upstream)
  /\ streams' = [streams EXCEPT ![r].state = "ended", ![r].ended = TRUE]
  /\ UNCHANGED <<streamVars, requestVars>>

\* response.data.on('error') of request r
OnErrorOf(r) ==
  /\ streams[r].state = "flowing"
  /\ streams' = [streams EXCEPT ![r].state = "errored", ![r].ended = TRUE]
  /\ UNCHANGED <<streamVars, requestVars>>

InitConcurrent == ConcurrentInit

NextConcurrent ==
  \/ \E r \in RequestIds : \E n \in PieceSizes(r) : OnDataOf(r, n)
  \/ \E r \in RequestIds : OnEndOf(r)
  \/ \E r \in RequestIds : OnErrorOf(r)

SpecConcurrent == InitConcurrent /\ [][NextConcurrent]_vars

(***************************************************************************)
(* Properties of the streaming path                                        *)
(***************************************************************************)

\* the handler's state when a streaming response begins
FreshHandler == [buffer |-> "", started |-> FALSE]

\* the lines of the log, each followed by one newline, concatenated
RECURSIVE JoinLines(_, _)
JoinLines(recs, j) ==
  IF j > Len(recs) THEN "" ELSE recs[j].line \o "\n" \o JoinLines(recs, j + 1)

HasNewline(s) == FirstOf(s, 1, {"\n"}) # 0

\* the complete lines the upstream has sent in its first n bytes, as bytes
SentLines(n) == CompleteLines(Split(SubSeq(upstream, 1, n)))

\* a fragment that is present and not empty
IsFragment(v) == v.t = "str" /\ v.s # ""

\* log entry k is a parsed event whose first choice has a delta object
IsDeltaEvent(k) == log[k].kind = "event" /\ FirstDelta(log[k].data).t = "obj"

\* the fragments of log entry k and the content of its outbound delta
ReasoningOf(k) == Get(FirstDelta(log[k].data), "reasoning_content")
ContentOf(k) == Get(FirstDelta(log[k].data), "content")
EmittedOf(k) == Get(FirstDelta(log[k].out), "content")

\* C1: chunk-invariance.  Once the upstream's bytes are all delivered, what
\* has been written is what delivering them as one single chunk writes,
\* however they were split.
ChunkInvariance ==
  delivered = Len(upstream)
    => outbound = HandleData(FreshHandler, upstream, SHOW_REASONING).written

ReasoningStateMachine ==
  SHOW_REASONING =>
    /\ Len(log) >= 1 => ~log[1].pre
    /\ \A k \in 1..(Len(log) - 1) : log[k + 1].pre = log[k].post
    /\ Len(log) >= 1 => reasoningStarted = log[Len(log)].post
    /\ \A k \in 1..Len(log) :
         IsDeltaEvent(k) =>
           LET r == ReasoningOf(k)
               c == ContentOf(k)
               pre == log[k].pre
               post == log[k].post
               emitted == EmittedOf(k)
           IN /\ (IsFragment(r) /\ ~IsFragment(c) /\ ~pre)
                   => emitted = JStr("<think>\n" \o r.s) /\ post
              /\ (IsFragment(r) /\ ~IsFragment(c) /\ pre)
                   => emitted = JStr(r.s) /\ post
              /\ (IsFragment(c) /\ ~IsFragment(r) /\ pre)
                   => emitted = JStr("</think>\n\n" \o c.s) /\ ~post
              /\ (IsFragment(c) /\ ~IsFragment(r) /\ ~pre)
                   => emitted = JStr(c.s) /\ ~post
              /\ (IsFragment(r) /\ IsFragment(c))
                   => /\ emitted = JStr((IF pre THEN "" ELSE "<think>\n") \o r.s
                                        \o "</think>\n\n" \o c.s)
                      /\ ~post

\* deltas {reasoning_content: R} then {content: C} went out as "<think>\nR"
\* and "</think>\n\nC"
ReasoningStateMachineWitness ==
  /\ SHOW_REASONING
  /\ Len(log) = 2
  /\ log[1].line = LineReasoning /\ log[2].line = LineContent
  /\ EmittedOf(1) = JStr("<think>\nR")
  /\ EmittedOf(2) = JStr("</think>\n\nC")
  /\ ~reasoningStarted

\* C4: with reasoning display on, no outbound delta of a parsed event keeps
\* the reasoning_content key, whatever the fragments are.
ReasoningAlwaysStripped ==
  SHOW_REASONING =>
    \A k \in 1..Len(log) :
      IsDeltaEvent(k) =>
        \A j \in 1..Len(FirstDelta(log[k].out).members) :
          FirstDelta(log[k].out).members[j].k # "reasoning_content"

\* the delta's members once the reasoning is dropped and the content is the
\* content fragment, or "" without one
StrippedMembers(delta) ==
  DeleteMember(
    SetMember(delta.members, "content",
              IF Get(delta, "content").t \in {"undefined", "null"}
              THEN JStr("") ELSE Get(delta, "content")),
    "reasoning_content")

\* C5: with reasoning display off, reasoning never reaches the client.  The
\* output for every data line that carries a delta is the event with the
\* reasoning dropped and the content as it came (empty without one), so it is
\* the same whatever the reasoning values; and no reasoning_content key and
\* no marker is written.
ReasoningNeverLeaks ==
  ~SHOW_REASONING =>
    /\ ~Includes(outbound, "reasoning_content")
    /\ ~Includes(outbound, "<think>")
    /\ \A k \in 1..Len(log) :
         LET p == JSONparse(Slice(log[k].line, 6)) IN
         (/\ StartsWith(log[k].line, DataPrefix)
          /\ p.ok
          /\ p.v.t # "null"
          /\ FirstDelta(p.v).t = "obj")
           => log[k].written =
                DataPrefix
                \o JSONstringify(WithDelta(p.v, StrippedMembers(FirstDelta(p.v))))
                \o "\n\n"

\* C6: a data line goes out verbatim exactly when its payload is the sentinel
\* or is not JSON; every other data line goes out parsed and re-serialized as
\* "data: <json>" and a blank line.
VerbatimOnlySentinelOrUnparsable ==
  \A k \in 1..Len(log) :
    StartsWith(log[k].line, DataPrefix) =>
      LET payload == Slice(log[k].line, 6)
          exempt == payload = Sentinel \/ ~JSONparse(payload).ok
      IN /\ exempt <=> log[k].written = log[k].line \o "\n"
         /\ ~exempt => /\ log[k].kind = "event"
                       /\ log[k].written
                            = DataPrefix \o JSONstringify(log[k].out) \o "\n\n"

\* C7: fail-open.  A data line whose payload is not JSON reaches the client
\* as the bytes the upstream sent, the flag is left as it was, and every
\* complete line sent so far has been processed.
MalformedForwardedVerbatim ==
  /\ Len(log) = Len(SentLines(delivered))
  /\ \A k \in 1..Len(log) :
       LET sent == ChunkToString(SentLines(delivered)[k]) IN
       (StartsWith(sent, DataPrefix) /\ ~JSONparse(Slice(sent, 6)).ok)
         => /\ log[k].written = sent \o "\n"
            /\ log[k].post = log[k].pre
(***************************************************************************)
(* Properties of the request adapter                                       *)
(***************************************************************************)

\* the handler has built and posted nimRequest
Posted == pc \in {"calling", "responded", "streaming"}

\* the inbound identifier is not a key of the alias table
Unlisted == body.model.s \notin DOMAIN MODEL_MAPPING

\* the probe answered with a 2xx status
ProbeSucceeded == probe.kind = "response" /\ probe.status \in 200..299

\* a probe was made and did not answer with a 2xx status
ProbeFailed == probe.kind # "none" /\ ~ProbeSucceeded

\* C8: parameter defaulting.  Each generation parameter of the upstream
\* request is the inbound value when one is present, an explicit 0 included,
\* and the fixed default only when it is absent.
ParameterDefaulting ==
  Posted =>
    /\ nimRequest.temperature
         = (IF body.temperature # Undefined THEN body.temperature ELSE JNum("0.85"))
    /\ nimRequest.max_tokens
         = (IF body.max_tokens # Undefined THEN body.max_tokens ELSE JNum("4096"))
    /\ nimRequest.top_p
         = (IF body.top_p # Undefined THEN body.top_p ELSE JNum("0.95"))
    /\ nimRequest.presence_penalty
         = (IF body.presence_penalty # Undefined THEN body.presence_penalty
            ELSE JNum("0.6"))
    /\ nimRequest.frequency_penalty
         = (IF body.frequency_penalty # Undefined THEN body.frequency_penalty
            ELSE JNum("0.3"))

\* C9: model resolution never raises.  For an identifier that is not in the
\* alias table, whatever the probe's outcome, the handler goes on to the
\* completion call without answering the client, with an upstream model that
\* is a non-empty string: the inbound identifier itself after a 2xx probe,
\* the heuristic's value after any other outcome.
ResolutionNeverRaises ==
  (Unlisted /\ pc # "received") =>
    /\ pc = "probing" => clientResponse = Undefined
    /\ Posted =>
         /\ probe.kind # "none"
         /\ nimModel.t = "str" /\ nimModel.s # ""
         /\ ProbeSucceeded => nimModel = body.model
         /\ ~ProbeSucceeded => nimModel = JStr(Heuristic(ToLowerCase(body.model.s)))
         /\ calls[Len(calls)].kind = "completion"
         /\ calls[Len(calls)].request.model = nimModel
    /\ pc = "calling" => clientResponse = Undefined

\* the tiers of the fallback, with the same model for the mid tier and for
\* everything else
TierOf(modelLower) ==
  IF \/ Includes(modelLower, "gpt-4")
     \/ Includes(modelLower, "claude-opus")
     \/ Includes(modelLower, "405b")
  THEN "meta/llama-3.1-405b-instruct"
  ELSE "meta/llama-3.1-70b-instruct"

\* the tiers of the fallback with a small-tier default of their own
TierOfWithSmall(modelLower) ==
  IF \/ Includes(modelLower, "gpt-4")
     \/ Includes(modelLower, "claude-opus")
     \/ Includes(modelLower, "405b")
  THEN "meta/llama-3.1-405b-instruct"
  ELSE IF \/ Includes(modelLower, "claude")
          \/ Includes(modelLower, "gemini")
          \/ Includes(modelLower, "70b")
  THEN "meta/llama-3.1-70b-instruct"
  ELSE "meta/llama-3.1-8b-instruct"

Listed == body.model.s \in DOMAIN MODEL_MAPPING

\* C11: for an identifier in the alias table, the upstream model is the
\* table's value, no probe is made, and the request posts exactly one call to
\* the upstream, the completion call.
AliasResolution ==
  (Listed /\ pc # "received") =>
    /\ nimModel = JStr(MODEL_MAPPING[body.model.s])
    /\ probe = NoProbe
    /\ Len(calls) = 1
    /\ calls[1].kind = "completion"
    /\ calls[1].request.model = JStr(MODEL_MAPPING[body.model.s])

\* the request for an alias has been answered after its single upstream call
AliasResolutionWitness ==
  /\ body.model = JStr("claude-3-opus")
  /\ pc = "responded"
  /\ clientResponse.status = 200
  /\ nimModel = JStr("openai/gpt-oss-120b")
  /\ Len(calls) = 1

\* the request as it arrived holds a system-role message
WithSystemMessage ==
  \E j \in 1..Len(arrived.messages) : arrived.messages[j].role = "system"

\* C12: prompt injection.  For a request without a system-role message the
\* upstream messages are one longer than the inbound ones: first a system
\* message whose content is the fixed prompt, then the inbound messages in
\* their order, unchanged.
PromptInjection ==
  (Posted /\ ~WithSystemMessage) =>
    /\ Len(nimRequest.messages) = Len(arrived.messages) + 1
    /\ nimRequest.messages[1] = [role |-> "system", content |-> DETAILED_SYSTEM_PROMPT]
    /\ \A j \in 1..Len(arrived.messages) :
         nimRequest.messages[j + 1] = arrived.messages[j]
    /\ calls[Len(calls)].request.messages = nimRequest.messages

\* a request of a user and an assistant message was posted with the prompt
\* in front
PromptInjectionWitness ==
  /\ Posted
  /\ arrived.messages = <<UserMessage, AssistantMessage>>
  /\ Len(nimRequest.messages) = 3
  /\ nimRequest.messages[1].role = "system"
  /\ nimRequest.messages[2] = UserMessage

\* C13: prompt enhancement.  For a request with a system-role message the
\* upstream messages have the length and order of the inbound ones; each
\* system message's content is its original content followed by the fixed
\* suffix and every other message is unchanged.
PromptEnhancement ==
  (Posted /\ WithSystemMessage) =>
    /\ Len(nimRequest.messages) = Len(arrived.messages)
    /\ \A j \in 1..Len(arrived.messages) :
         IF arrived.messages[j].role = "system"
         THEN /\ nimRequest.messages[j].role = "system"
              /\ nimRequest.messages[j].content
                   = arrived.messages[j].content
                     \o "\n\nIMPORTANT: Provide detailed, comprehensive responses. Elaborate fully on your answers."
         ELSE nimRequest.messages[j] = arrived.messages[j]
    /\ calls[Len(calls)].request.messages = nimRequest.messages

\* a request whose system message comes second was posted with the suffix
\* on that message and the user message as it was
PromptEnhancementWitness ==
  /\ Posted
  /\ arrived.messages = <<UserMessage, SystemMessage>>
  /\ Len(nimRequest.messages) = 2
  /\ nimRequest.messages[1] = UserMessage
  /\ nimRequest.messages[2].content = "S" \o EnhancementSuffix

\* C14: the caller's messages are never mutated.  Once the handler has built
\* the upstream request, in the prepend branch and in the suffix branch,
\* req.body and its messages are what arrived.
InboundNeverMutated ==
  pc # "received" => /\ body.messages = arrived.messages
                     /\ body = arrived

\* the prepend branch has run and the caller's messages are as they came
InboundNeverMutatedWitness ==
  /\ pc = "responded"
  /\ nimRequest.messages # arrived.messages
  /\ body.messages = arrived.messages
  /\ ~WithSystemMessage
  /\ Len(nimRequest.messages) = Len(body.messages) + 1

\* C15: end of stream.  The outbound stream is ended exactly when the
\* upstream has signalled end or error; the step that signals it writes
\* nothing, neither an error event to the stream nor an error body to the
\* response, and no step writes after it.
EndOfStream ==
  /\ [](resEnded <=> streamState \in {"ended", "errored"})
  /\ [][/\ (streamState = "flowing" /\ streamState' # "flowing")
             => /\ resEnded'
                /\ outbound' = outbound
                /\ clientResponse' = clientResponse
        /\ streamState # "flowing"
             => /\ outbound' = outbound
                /\ streamState' = streamState]_vars

\* the upstream failed in mid-stream, after some output and before all its
\* bytes had come: the response is ended and holds the headers only
EndOfStreamWitness ==
  /\ streamState = "errored"
  /\ resEnded
  /\ outbound # ""
  /\ delivered < Len(upstream)
  /\ clientResponse = StreamHeaders

\* what request r's handler leaves when the bytes delivered to it so far
\* come as one chunk to a request running alone
Alone(r) ==
  HandleData(FreshHandler,
             SubSeq(streams[r].upstream, 1, streams[r].delivered),
             SHOW_REASONING)

\* C16: per-request isolation.  However the events of the concurrent
\* streaming requests interleave, each request's outbound stream, buffer and
\* flag are those of the same request running alone, and a step changes the
\* state of one request only.
PerRequestIsolation ==
  /\ [](\A r \in RequestIds :
          /\ streams[r].outbound = Alone(r).written
          /\ streams[r].buffer = Alone(r).buffer
          /\ streams[r].started = Alone(r).started)
  /\ [][\A r \in RequestIds :
          streams'[r] # streams[r]
            => \A q \in RequestIds \ {r} : streams'[q] = streams[q]]_vars

\* request 1 is inside its reasoning with part of a line in its buffer while
\* request 2 has written content, both still flowing
PerRequestIsolationWitness ==
  /\ streams[1].started /\ ~streams[2].started
  /\ streams[1].outbound # "" /\ streams[2].outbound # ""
  /\ streams[1].buffer # ""
  /\ streams[1].state = "flowing" /\ streams[2].state = "flowing"
  /\ SHOW_REASONING

\* the client has received a completion, not an error
Completed == pc = "responded" /\ clientResponse.status = 200

\* C17: the non-streaming response carries the model string the caller sent,
\* on every resolution route: alias-table hit, adopted after the probe, or
\* heuristic fallback.
ModelEchoed ==
  Completed => clientResponse.body.model = arrived.model

\* a completion was returned under the caller's model name after the
\* heuristic had resolved another one
ModelEchoedWitness ==
  /\ Completed
  /\ ProbeFailed
  /\ arrived.model = JStr("claude-2")
  /\ nimModel = JStr("meta/llama-3.1-70b-instruct")
  /\ clientResponse.body.model = JStr("claude-2")

\* log entry k is an event with a reasoning fragment only
IsReasoningDelta(k) ==
  IsDeltaEvent(k) /\ IsFragment(ReasoningOf(k)) /\ ~IsFragment(ContentOf(k))

\* log entry k is an event with a content fragment only
IsContentDelta(k) ==
  IsDeltaEvent(k) /\ IsFragment(ContentOf(k)) /\ ~IsFragment(ReasoningOf(k))

\* the stream so far is m reasoning deltas followed by content deltas
AnswerSplitAt(m) ==
  /\ m \in 1..(Len(log) - 1)
  /\ \A k \in 1..m : IsReasoningDelta(k)
  /\ \A k \in (m + 1)..Len(log) : IsContentDelta(k)

\* the fragments of entries j..n put together: reasoning, content, and the
\* content that went out
RECURSIVE ReasoningText(_, _)
ReasoningText(j, n) ==
  IF j > n THEN "" ELSE ReasoningOf(j).s \o ReasoningText(j + 1, n)

RECURSIVE ContentText(_, _)
ContentText(j, n) ==
  IF j > n THEN "" ELSE ContentOf(j).s \o ContentText(j + 1, n)

RECURSIVE EmittedText(_, _)
EmittedText(j, n) ==
  IF j > n THEN "" ELSE EmittedOf(j).s \o EmittedText(j + 1, n)

\* the upstream message of a non-streamed answer with reasoning r and content c
AnswerMessage(r, c) ==
  JObj(<<[k |-> "role", v |-> JStr("assistant")],
         [k |-> "content", v |-> JStr(c)],
         [k |-> "reasoning_content", v |-> JStr(r)]>>)

\* C18: stream and non-stream agree with reasoning display on.  When an
\* answer is streamed as reasoning deltas followed by content deltas, the
\* content fragments written, put together, are the content the
\* non-streaming path produces for the same reasoning and content.
StreamMatchesNonStream ==
  SHOW_REASONING =>
    \A m \in 1..Len(log) :
      AnswerSplitAt(m) =>
        EmittedText(1, Len(log))
          = FullContent(AnswerMessage(ReasoningText(1, m),
                                      ContentText(m + 1, Len(log))),
                        TRUE).s

\* the markers of text s from position i on, in order: "open" for <think>,
\* "close" for </think>
RECURSIVE MarkersFrom(_, _)
MarkersAt(s, j) ==
  IF j = 0 THEN <<>>
  ELSE IF StartsAt(s, j, "<think>") THEN <<"open">> \o MarkersFrom(s, j + 1)
  ELSE IF StartsAt(s, j, "</think>") THEN <<"close">> \o MarkersFrom(s, j + 1)
  ELSE MarkersFrom(s, j + 1)

MarkersFrom(s, i) == MarkersAt(s, FirstOf(s, i, {"<"}))

\* the markers in the content written for log entries j and after
RECURSIVE MarkersWritten(_)
MarkersWritten(j) ==
  IF j > Len(log) THEN <<>>
  ELSE (IF log[j].kind = "event" /\ EmittedOf(j).t = "str"
        THEN MarkersFrom(EmittedOf(j).s, 1) ELSE <<>>)
       \o MarkersWritten(j + 1)

\* openers and closers alternate, an opener first
Alternate(ms) ==
  \A i \in 1..Len(ms) : ms[i] = (IF i % 2 = 1 THEN "open" ELSE "close")

\* the openers in ms less the closers
Balance(ms) ==
  Cardinality({i \in 1..Len(ms) : ms[i] = "open"})
  - Cardinality({i \in 1..Len(ms) : ms[i] = "close"})

\* C19: marker balance.  With reasoning display on, the markers in the
\* content written so far alternate, starting with an opener; openers less
\* closers is 1 when the flag is true and 0 when it is false; and a line that
\* is discarded, the sentinel line and a malformed line leave the flag as it
\* was.
MarkerBalance ==
  SHOW_REASONING =>
    /\ Alternate(MarkersWritten(1))
    /\ Balance(MarkersWritten(1)) = (IF reasoningStarted THEN 1 ELSE 0)
    /\ \A k \in 1..Len(log) :
         log[k].kind \in {"discarded", "sentinel", "caught"}
           => log[k].post = log[k].pre

\* reasoning was opened, closed and opened again
MarkerBalanceWitness ==
  /\ SHOW_REASONING
  /\ MarkersWritten(1) = <<"open", "close", "open">>
  /\ reasoningStarted

\* C20: residual buffer at end of stream.  When the upstream has ended or
\* failed, the text left in the buffer is still there, unprocessed: what was
\* written is the output of the lines whose newline was received and nothing
\* else, and a flag that is still true has had no closing marker.  The ending
\* step itself changes none of this.
ResidualNeverProcessed ==
  /\ [](streamState \in {"ended", "errored"} =>
          /\ outbound = Concat(log, 1)
          /\ Len(log) = Len(SentLines(delivered))
          /\ JoinLines(log, 1) \o buffer = received
          /\ (SHOW_REASONING /\ reasoningStarted)
               => MarkersWritten(1)[Len(MarkersWritten(1))] = "open")
  /\ [][(streamState = "flowing" /\ streamState' # "flowing")
          => /\ outbound' = outbound
             /\ buffer' = buffer
             /\ log' = log
             /\ reasoningStarted' = reasoningStarted]_vars

\* the upstream ended inside a line, with the reasoning still open
ResidualNeverProcessedWitness ==
  /\ streamState = "ended"
  /\ buffer # ""
  /\ SHOW_REASONING /\ reasoningStarted
  /\ outbound # ""
====
